---------------------------- MODULE Spec2Model ----------------------------
(***************************************************************************)
(* Model of the update-check subsystem of the Portainer integration:       *)
(* PortainerCoordinator (custom_components/portainer/coordinator.py) and   *)
(* the image-name parser and manifest fetch of BaseRegistry                *)
(* (docker_registry.py).  Spec is the coordinator with its polling cycles; *)
(* SpecRegistry is one due check against a registry in all its behaviours. *)
(* SpecParser is one call of parse_image_name; SpecEntities is the button  *)
(* and the sensor of the update check (button.py, sensor.py) being asked   *)
(* whether they are available.  SpecToken is one registry provider and    *)
(* its token; SpecShutdown is the refresh tasks and async_shutdown around  *)
(* coordinator.lock; SpecTime is the stored update_check_time string and   *)
(* what the scheduler makes of it.                                         *)
(*                                                                         *)
(* Time is discrete.  A day has SlotsPerDay slots; a datetime is the       *)
(* number of slots since midnight of day 0, so that                        *)
(*   now.replace(hour, minute, second=0, ...)  is  Day(now)*SlotsPerDay+hm *)
(* and timedelta(days=1) / 86400 seconds is SlotsPerDay.                   *)
(* Strings are sequences of one-character strings.                         *)
(***************************************************************************)
EXTENDS Integers, Sequences, FiniteSets, TLC

(* ------------------------------ bounds -------------------------------- *)
SlotsPerDay == 2
\* the clock runs through day 0 and LaterSlots slots of the days after it
LaterSlots == 2
MaxTime == SlotsPerDay + LaterSlots - 1
\* the longest image name handed to the parser, not counting a registry
\* prefix or a digest suffix
MaxLen == 3
\* the longest manifest list a registry answers with
MaxEntries == 2

(* last_update_check is None *)
None == -1

(* ------------------------------ strings ------------------------------- *)
Contains(s, ch) == \E i \in 1..Len(s) : s[i] = ch

\* index of the first / last occurrence of ch in s (0 when absent)
FirstIndex(s, ch) ==
    IF Contains(s, ch)
    THEN CHOOSE i \in 1..Len(s) : s[i] = ch /\ \A j \in 1..(i-1) : s[j] # ch
    ELSE 0

LastIndex(s, ch) ==
    IF Contains(s, ch)
    THEN CHOOSE i \in 1..Len(s) : s[i] = ch /\ \A j \in (i+1)..Len(s) : s[j] # ch
    ELSE 0

Before(s, i) == SubSeq(s, 1, i - 1)
After(s, i) == SubSeq(s, i + 1, Len(s))

StartsWith(s, p) == Len(s) >= Len(p) /\ SubSeq(s, 1, Len(p)) = p

DOCKER_IO == <<"d","o","c","k","e","r",".","i","o">>
DOCKER_IO_REGISTRY == <<"r","e","g","i","s","t","r","y","-","1",".">> \o DOCKER_IO
GHCR_IO == <<"g","h","c","r",".","i","o">>
PORT_443 == <<":","4","4","3">>
LIBRARY == <<"l","i","b","r","a","r","y","/">>
LATEST == <<"l","a","t","e","s","t">>
UNKNOWN == <<"u","n","k","n","o","w","n">>
SHA256_PREFIX == <<"s","h","a","2","5","6",":">>

(* --------------------------- image name parser ------------------------ *)
\* _split_repo_and_tag splitting at the first colon instead of the last
_split_repo_and_tag_first_colon(image_name, default_tag) ==
    IF Contains(image_name, ":")
    THEN LET k == FirstIndex(image_name, ":")
             left == Before(image_name, k)
             right == After(image_name, k)
         IN  IF Contains(right, "/")
             THEN <<image_name, default_tag>>
             ELSE <<left, right>>
    ELSE <<image_name, default_tag>>

\* BaseRegistry._split_repo_and_tag: <<repo, tag>>
_split_repo_and_tag(image_name, default_tag) ==
    IF Contains(image_name, ":")
    THEN LET k == LastIndex(image_name, ":")
             left == Before(image_name, k)
             right == After(image_name, k)
         IN  IF Contains(right, "/")
             THEN <<image_name, default_tag>>
             ELSE <<left, right>>
    ELSE <<image_name, default_tag>>

\* BaseRegistry._detect_registry: <<registry, repo>>
_detect_registry(repo) ==
    IF Contains(repo, "/")
    THEN LET k == FirstIndex(repo, "/")
             first == Before(repo, k)
         IN  IF Contains(first, ".") \/ Contains(first, ":")
             THEN <<first, After(repo, k)>>
             ELSE <<DOCKER_IO, repo>>
    ELSE <<DOCKER_IO, repo>>

\* _prepend_library_if_needed that does not know the Docker Hub hosts with
\* port 443
_prepend_library_if_needed_no_port(registry, repo) ==
    IF /\ registry \in { DOCKER_IO, DOCKER_IO_REGISTRY }
       /\ ~Contains(repo, "/")
    THEN LIBRARY \o repo
    ELSE repo

\* BaseRegistry._prepend_library_if_needed
_prepend_library_if_needed(registry, repo) ==
    IF /\ registry \in { DOCKER_IO, DOCKER_IO_REGISTRY,
                         DOCKER_IO \o PORT_443, DOCKER_IO_REGISTRY \o PORT_443 }
       /\ ~Contains(repo, "/")
    THEN LIBRARY \o repo
    ELSE repo

\* parse_image_name building the image_key without the registry
parse_image_name_key_without_registry(image_name) ==
    IF image_name = <<>>
    THEN [ registry |-> DOCKER_IO, image_repo |-> UNKNOWN, image_tag |-> LATEST,
           image_key |-> DOCKER_IO \o <<"/">> \o UNKNOWN \o <<":">> \o LATEST ]
    ELSE LET stripped == IF Contains(image_name, "@")
                         THEN Before(image_name, FirstIndex(image_name, "@"))
                         ELSE image_name
             rt == _split_repo_and_tag(stripped, LATEST)
             rr == _detect_registry(rt[1])
             registry == rr[1]
             repo == _prepend_library_if_needed(registry, rr[2])
             tag == rt[2]
         IN  [ registry |-> registry, image_repo |-> repo, image_tag |-> tag,
               image_key |-> repo \o <<":">> \o tag ]

\* BaseRegistry.parse_image_name
parse_image_name(image_name) ==
    IF image_name = <<>>
    THEN [ registry |-> DOCKER_IO, image_repo |-> UNKNOWN, image_tag |-> LATEST,
           image_key |-> DOCKER_IO \o <<"/">> \o UNKNOWN \o <<":">> \o LATEST ]
    ELSE LET stripped == IF Contains(image_name, "@")
                         THEN Before(image_name, FirstIndex(image_name, "@"))
                         ELSE image_name
             rt == _split_repo_and_tag(stripped, LATEST)
             rr == _detect_registry(rt[1])
             registry == rr[1]
             repo == _prepend_library_if_needed(registry, rr[2])
             tag == rt[2]
         IN  [ registry |-> registry, image_repo |-> repo, image_tag |-> tag,
               image_key |-> IF registry # <<>>
                             THEN registry \o <<"/">> \o repo \o <<":">> \o tag
                             ELSE repo \o <<":">> \o tag ]

\* BaseRegistry.for_registry: the provider class chosen for a registry
for_registry(image_repo, registry) ==
    LET host == IF registry = <<>> THEN DOCKER_IO ELSE registry
    IN  IF host \in { DOCKER_IO, DOCKER_IO_REGISTRY } THEN "DockerIORegistry"
        ELSE IF host = GHCR_IO THEN "GHCRRegistry"
        ELSE "GenericRegistry"

\* _normalize_image_id with a bug: the prefix is not removed
_normalize_image_id_keep(image_id) == image_id

\* PortainerCoordinator._normalize_image_id
_normalize_image_id(image_id) ==
    IF StartsWith(image_id, SHA256_PREFIX)
    THEN SubSeq(image_id, Len(SHA256_PREFIX) + 1, Len(image_id))
    ELSE image_id

(* ------------------------- environment universe ----------------------- *)
\* container records as listed by Portainer: Id, Image, ImageID
C_A == [ Id |-> "c1", Image |-> <<"n">>, ImageID |-> <<"a">> ]
C_B == [ Id |-> "c2", Image |-> <<"n">>, ImageID |-> SHA256_PREFIX \o <<"b">> ]
C_E == [ Id |-> "c3", Image |-> <<>>, ImageID |-> <<>> ]

\* the container listings one polling cycle can see, in listing order
Listings == { <<>>, <<C_A>>, <<C_A, C_B>>, <<C_E, C_A>> }

\* what the registry client does for one manifest request: it returns a
\* manifest (kind "ok", Id is the manifest's Id, <<>> when it has none) or
\* raises; code is the status of the HTTP response carried by an HTTPError,
\* 0 when the error carries no response
Outcomes ==
    { [ kind |-> "ok", code |-> 200, Id |-> SHA256_PREFIX \o <<"a">> ] }
    \cup { [ kind |-> "HTTPError", code |-> c, Id |-> <<>> ] : c \in { 503 } }

\* the option sets a config entry can carry
Options == [ feature_switch_update_check : BOOLEAN, update_check_time : 0..(SlotsPerDay - 1) ]

EmptyMap == [ x \in {} |-> TRUE ]
Put(m, k, v) == [ x \in (DOMAIN m) \cup {k} |-> IF x = k THEN v ELSE m[x] ]

\* "no result": the value of the result fields of an event that is not a call
NoResult == [ status |-> -1, registry_used |-> FALSE ]

(* ------------------------------- state -------------------------------- *)
VARIABLES
    now,                        \* dt_util.now()
    config_entry,               \* coordinator.config_entry.options
    features,                   \* coordinator.features[CONF_FEATURE_UPDATE_CHECK]
    last_update_check,
    force_update_requested,
    cached_update_results,      \* container id -> result
    cached_registry_responses,  \* image_key -> manifest Id
    lock,                       \* coordinator.lock is held
    todo,                       \* containers the running cycle has still to handle
    registry_checked,           \* local of get_containers
    force_pc,                   \* position of the force_update_check() call
    event,                      \* the step just taken and, for a call, what it returned
    cycle_ticked,               \* the clock has advanced during the running cycle
    cycle_live_days,            \* days on which the running cycle contacted the registry
    prev_live_days,             \* {today} if an earlier cycle contacted the registry today;
                                \* {None} once a force-check or an option update has happened
    data,                       \* coordinator.data: what the last refresh that did not raise
                                \* returned ("none" before the first one)
    registry_call,              \* one manifest request and what became of it
    cancelled,                  \* the task of the cycle holding the lock was cancelled
    parse_call,                 \* one parse_image_name call and what it returned
    entities,                   \* the update-check entities and their last answers
    provider,                   \* one registry provider instance and its last token call
    refresh,                    \* the refresh tasks that contend for coordinator.lock
    time_call                   \* one stored update_check_time string and what
                                \* the scheduler made of it

vars == << now, config_entry, features, last_update_check, force_update_requested,
           cached_update_results, cached_registry_responses, lock, todo,
           registry_checked, force_pc, event, cycle_ticked, cycle_live_days,
           prev_live_days, data, registry_call, cancelled, parse_call, entities, provider, refresh, time_call >>

Day(t) == t \div SlotsPerDay
TimeOfDay(t) == t % SlotsPerDay

\* PortainerCoordinator.update_check_time
update_check_time == config_entry.update_check_time

\* now.replace(hour=hour, minute=minute, second=0, microsecond=0)
Replace(t, hm) == Day(t) * SlotsPerDay + hm

\* a force-check or an option update has happened
tainted == prev_live_days = {None}

\* the time the running cycle acquired the lock
cycle_start == IF cycle_ticked THEN now - 1 ELSE now

\* no manifest request is being looked at
NoCall == [ op |-> "none" ]

Ev(op) == [ op |-> op, cid |-> "none", path |-> "none", live |-> FALSE,
            result |-> NoResult, prior |-> NoResult, attrs |-> EmptyMap ]

(* ------------------------------ scheduler ----------------------------- *)
\* should_check_updates with a check that is due only at the scheduled slot
should_check_updates_exact ==
    IF ~features THEN FALSE
    ELSE IF force_update_requested THEN TRUE
    ELSE LET scheduled_time == Replace(now, update_check_time)
         IN  IF now # scheduled_time THEN FALSE
             ELSE IF last_update_check = None THEN TRUE
             ELSE IF last_update_check < scheduled_time THEN TRUE
             ELSE FALSE

\* should_check_updates testing last_update_check for None before the time
should_check_updates_none_first ==
    IF ~features THEN FALSE
    ELSE IF force_update_requested THEN TRUE
    ELSE LET scheduled_time == Replace(now, update_check_time)
         IN  IF last_update_check = None THEN TRUE
             ELSE IF now < scheduled_time THEN FALSE
             ELSE IF last_update_check < scheduled_time THEN TRUE
             ELSE FALSE

\* should_check_updates comparing last_update_check with <= instead of <
should_check_updates_le ==
    IF ~features THEN FALSE
    ELSE IF force_update_requested THEN TRUE
    ELSE LET scheduled_time == Replace(now, update_check_time)
         IN  IF now < scheduled_time THEN FALSE
             ELSE IF last_update_check = None THEN TRUE
             ELSE IF last_update_check <= scheduled_time THEN TRUE
             ELSE FALSE

\* should_check_updates testing the force flag after the time of day
should_check_updates_time_first ==
    IF ~features THEN FALSE
    ELSE LET scheduled_time == Replace(now, update_check_time)
         IN  IF now < scheduled_time THEN FALSE
             ELSE IF force_update_requested THEN TRUE
             ELSE IF last_update_check = None THEN TRUE
             ELSE IF last_update_check < scheduled_time THEN TRUE
             ELSE FALSE

\* should_check_updates testing the force flag before the feature flag
should_check_updates_force_first ==
    IF force_update_requested THEN TRUE
    ELSE IF ~features THEN FALSE
    ELSE LET scheduled_time == Replace(now, update_check_time)
         IN  IF now < scheduled_time THEN FALSE
             ELSE IF last_update_check = None THEN TRUE
             ELSE IF last_update_check < scheduled_time THEN TRUE
             ELSE FALSE

\* PortainerCoordinator.should_check_updates
should_check_updates ==
    IF ~features THEN FALSE
    ELSE IF force_update_requested THEN TRUE
    ELSE LET scheduled_time == Replace(now, update_check_time)
         IN  IF now < scheduled_time THEN FALSE
             ELSE IF last_update_check = None THEN TRUE
             ELSE IF last_update_check < scheduled_time THEN TRUE
             ELSE FALSE

\* get_next_update_check_time taking today's time also when it is now
get_next_update_check_time_le ==
    IF ~features THEN None
    ELSE LET today_check == Replace(now, update_check_time)
         IN  IF now <= today_check THEN today_check ELSE today_check + SlotsPerDay

\* PortainerCoordinator.get_next_update_check_time (None when disabled)
get_next_update_check_time ==
    IF ~features THEN None
    ELSE LET today_check == Replace(now, update_check_time)
         IN  IF now < today_check THEN today_check ELSE today_check + SlotsPerDay

\* PortainerUpdateService.should_check_updates: it compares with the value of
\* get_next_update_check_time(), the next scheduled time, not with today's
update_service_should_check_updates ==
    IF ~features THEN FALSE
    ELSE IF force_update_requested THEN TRUE
    ELSE LET scheduled_time == get_next_update_check_time
         IN  IF now < scheduled_time THEN FALSE
             ELSE IF last_update_check = None THEN TRUE
             ELSE IF last_update_check < scheduled_time THEN TRUE
             ELSE FALSE

\* _invalidate_cache_if_needed clearing already at an age of exactly one day
_invalidate_cache_if_needed_ge ==
    IF last_update_check = None THEN EmptyMap
    ELSE IF now - last_update_check >= SlotsPerDay THEN EmptyMap
    ELSE cached_registry_responses

\* PortainerCoordinator._invalidate_cache_if_needed: the registry cache afterwards
_invalidate_cache_if_needed ==
    IF last_update_check = None THEN EmptyMap
    ELSE IF now - last_update_check > SlotsPerDay THEN EmptyMap
    ELSE cached_registry_responses

(* ----------------------------- orchestrator --------------------------- *)
\* PortainerCoordinator._handle_http_error
_handle_http_error(o) ==
    IF o.code = 401 THEN [ status |-> 401, registry_used |-> TRUE ]
    ELSE IF o.code = 404 THEN [ status |-> 404, registry_used |-> TRUE ]
    ELSE IF o.code = 429 THEN [ status |-> 429, registry_used |-> TRUE ]
    ELSE [ status |-> IF o.code # 0 THEN o.code ELSE 500, registry_used |-> TRUE ]

\* PortainerCoordinator._handle_registry_exception
_handle_registry_exception(o) ==
    IF o.kind = "HTTPError" THEN _handle_http_error(o)
    ELSE IF o.kind = "ValueError" THEN [ status |-> 404, registry_used |-> TRUE ]
    ELSE [ status |-> 500, registry_used |-> TRUE ]

\* PortainerCoordinator._get_registry_response: the result and the registry
\* cache afterwards; every call sends a request to the registry
_get_registry_response(o, image_key, reg_cache) ==
    IF o.kind = "ok"
    THEN [ result |-> [ status |-> 200, registry_used |-> TRUE ],
           manifest |-> o.Id,
           cache |-> Put(reg_cache, image_key, o.Id) ]
    ELSE [ result |-> _handle_registry_exception(o),
           manifest |-> <<>>,
           cache |-> reg_cache ]

\* PortainerCoordinator._compare_image_ids
_compare_image_ids(registry_id, container) ==
    LET registry_image_id == _normalize_image_id(registry_id)
        container_image_id == _normalize_image_id(container.ImageID)
    IN  IF registry_image_id # <<>> /\ container_image_id # <<>>
        THEN registry_image_id # container_image_id
        ELSE FALSE

\* the not-due branch of check_image_updates, with a bug: the "not yet
\* checked" verdict is stored in the verdict cache
_not_due_caching_unchecked(c, reg_cache) ==
    IF c.Id \in DOMAIN cached_update_results
    THEN [ result |-> cached_update_results[c.Id],
           results |-> cached_update_results,
           responses |-> reg_cache,
           path |-> "cached", live |-> FALSE ]
    ELSE [ result |-> [ status |-> 2, registry_used |-> FALSE ],
           results |-> Put(cached_update_results, c.Id,
                           [ status |-> 2, registry_used |-> FALSE ]),
           responses |-> reg_cache,
           path |-> "unchecked", live |-> FALSE ]

\* the not-due branch of PortainerCoordinator.check_image_updates
_not_due(c, reg_cache) ==
    IF c.Id \in DOMAIN cached_update_results
    THEN [ result |-> cached_update_results[c.Id],
           results |-> cached_update_results,
           responses |-> reg_cache,
           path |-> "cached", live |-> FALSE ]
    ELSE [ result |-> [ status |-> 2, registry_used |-> FALSE ],
           results |-> cached_update_results,
           responses |-> reg_cache,
           path |-> "unchecked", live |-> FALSE ]

\* check_image_updates with a bug: a failed registry call is returned but
\* not stored as the verdict
check_image_updates_not_caching_failures(c, o) ==
    IF c.Image = <<>>
    THEN [ result |-> [ status |-> 500, registry_used |-> FALSE ],
           results |-> Put(cached_update_results, c.Id,
                           [ status |-> 500, registry_used |-> FALSE ]),
           responses |-> cached_registry_responses,
           path |-> "no_image", live |-> FALSE ]
    ELSE LET image_info == parse_image_name(c.Image)
             should_check == should_check_updates
             reg_cache == _invalidate_cache_if_needed
         IN  IF should_check
             THEN LET r == _get_registry_response(o, image_info.image_key, reg_cache)
                      result == IF r.result.status # 200 THEN r.result
                                ELSE IF _compare_image_ids(r.manifest, c)
                                     THEN [ status |-> 1, registry_used |-> TRUE ]
                                     ELSE [ status |-> 0, registry_used |-> TRUE ]
                  IN  [ result |-> result,
                        results |-> IF r.result.status # 200
                                    THEN cached_update_results
                                    ELSE Put(cached_update_results, c.Id, result),
                        responses |-> r.cache,
                        path |-> "due", live |-> TRUE ]
             ELSE _not_due(c, reg_cache)

\* check_image_updates with a bug: the image name is not tested, so a record
\* without one is checked against the registry like any other
check_image_updates_image_untested(c, o) ==
    LET image_info == parse_image_name(c.Image)
        should_check == should_check_updates
        reg_cache == _invalidate_cache_if_needed
    IN  IF should_check
        THEN LET r == _get_registry_response(o, image_info.image_key, reg_cache)
                 result == IF r.result.status # 200 THEN r.result
                           ELSE IF _compare_image_ids(r.manifest, c)
                                THEN [ status |-> 1, registry_used |-> TRUE ]
                                ELSE [ status |-> 0, registry_used |-> TRUE ]
             IN  [ result |-> result,
                   results |-> Put(cached_update_results, c.Id, result),
                   responses |-> r.cache,
                   path |-> "due", live |-> TRUE ]
        ELSE _not_due(c, reg_cache)

\* PortainerCoordinator.check_image_updates for container record c when the
\* registry answers o: the returned result, both caches afterwards, the path
\* taken and whether the call sent a request to the registry
check_image_updates(c, o) ==
    IF c.Image = <<>>
    THEN [ result |-> [ status |-> 500, registry_used |-> FALSE ],
           results |-> Put(cached_update_results, c.Id,
                           [ status |-> 500, registry_used |-> FALSE ]),
           responses |-> cached_registry_responses,
           path |-> "no_image", live |-> FALSE ]
    ELSE LET image_info == parse_image_name(c.Image)
             should_check == should_check_updates
             reg_cache == _invalidate_cache_if_needed
         IN  IF should_check
             THEN LET r == _get_registry_response(o, image_info.image_key, reg_cache)
                      result == IF r.result.status # 200 THEN r.result
                                ELSE IF _compare_image_ids(r.manifest, c)
                                     THEN [ status |-> 1, registry_used |-> TRUE ]
                                     ELSE [ status |-> 0, registry_used |-> TRUE ]
                  IN  [ result |-> result,
                        results |-> Put(cached_update_results, c.Id, result),
                        responses |-> r.cache,
                        path |-> "due", live |-> TRUE ]
             ELSE _not_due(c, reg_cache)

\* PortainerCoordinator._get_update_description without translations: the
\* text of the default map, or the status code spelled out
_get_update_description(status) ==
    CASE status = 0 -> "No update available."
      [] status = 1 -> "Update available!"
      [] status = 2 -> "Update status not yet checked."
      [] status = 401 -> "Unauthorized (registry credentials required or invalid) for registry {registry}."
      [] status = 404 -> "Image not found on registry ({registry})."
      [] status = 429 -> "Registry rate limit reached."
      [] status = 500 -> "Registry/internal error."
      [] OTHER -> "Status code: " \o ToString(status)

\* the custom attributes _handle_custom_features_for_endpoint writes into the
\* container record for the result of check_image_updates
custom_attributes(result) ==
    [ Update_Available |-> result.status,
      Update_Description |-> _get_update_description(result.status) ]

(* ------------------------------- actions ------------------------------ *)
TypeOK ==
    /\ now \in 0..MaxTime
    /\ config_entry \in Options
    /\ features \in BOOLEAN
    /\ last_update_check \in {None} \cup (0..MaxTime)
    /\ force_update_requested \in BOOLEAN
    /\ lock \in BOOLEAN
    /\ registry_checked \in BOOLEAN
    /\ force_pc \in { "idle", "requested", "refreshing", "done" }
    /\ data \in { "none", "empty", "snapshot" }
    /\ cancelled \in BOOLEAN

Init ==
    /\ now \in 0..(SlotsPerDay - 1)
    /\ config_entry \in Options
    /\ features = config_entry.feature_switch_update_check
    /\ last_update_check = None
    /\ force_update_requested = FALSE
    /\ cached_update_results = EmptyMap
    /\ cached_registry_responses = EmptyMap
    /\ lock = FALSE
    /\ todo = <<>>
    /\ registry_checked = FALSE
    /\ force_pc = "idle"
    /\ event = Ev("other")
    /\ cycle_ticked = FALSE
    /\ cycle_live_days = {}
    /\ prev_live_days = {}
    /\ data = "none"
    /\ registry_call = NoCall
    /\ cancelled = FALSE
    /\ parse_call = NoCall
    /\ entities = NoCall
    /\ provider = NoCall
    /\ refresh = NoCall
    /\ time_call = NoCall

\* the clock advances by d slots; a polling cycle is shorter than a slot, so
\* the clock crosses at most one slot boundary while a cycle runs
Tick(d) ==
    /\ now + d <= MaxTime
    /\ (lock /\ ~cancelled) => (d = 1 /\ ~cycle_ticked)
    /\ now' = now + d
    /\ cycle_ticked' = (lock /\ ~cancelled)
    /\ prev_live_days' = IF tainted THEN {None} ELSE prev_live_days \cap {Day(now')}
    /\ event' = Ev("other")
    /\ UNCHANGED << config_entry, features, last_update_check, force_update_requested,
                    cached_update_results, cached_registry_responses, lock, todo,
                    registry_checked, force_pc, cycle_live_days, data, registry_call,
                    cancelled, parse_call, entities, provider, refresh, time_call >>

\* PortainerCoordinator.async_update_entry
async_update_entry(options) ==
    /\ config_entry' = options
    /\ features' = options.feature_switch_update_check
    /\ last_update_check' = None
    /\ prev_live_days' = {None}
    /\ event' = Ev("other")
    /\ UNCHANGED << data, registry_call, cancelled, parse_call, entities, provider, refresh, time_call, now, force_update_requested, cached_update_results,
                    cached_registry_responses, lock, todo, registry_checked,
                    force_pc, cycle_ticked, cycle_live_days >>

\* CycleStart with a bug: the cycle does not wait for the lock
CycleStart_unguarded(listing) ==
    /\ lock' = TRUE
    /\ todo' = listing
    /\ registry_checked' = FALSE
    /\ force_pc' = IF force_pc = "requested" THEN "refreshing" ELSE force_pc
    /\ cycle_ticked' = FALSE
    /\ cycle_live_days' = {}
    /\ event' = Ev("other")
    /\ UNCHANGED << data, registry_call, cancelled, parse_call, entities, provider, refresh, time_call, now, config_entry, features, last_update_check,
                    force_update_requested, cached_update_results,
                    cached_registry_responses, prev_live_days >>

\* _async_update_data up to the start of the container loop of get_containers:
\* the lock is acquired and the endpoints' containers are listed
CycleStart(listing) ==
    /\ ~lock
    /\ lock' = TRUE
    /\ todo' = listing
    /\ registry_checked' = FALSE
    /\ force_pc' = IF force_pc = "requested" THEN "refreshing" ELSE force_pc
    /\ cycle_ticked' = FALSE
    /\ cycle_live_days' = {}
    /\ event' = Ev("other")
    /\ UNCHANGED << data, registry_call, cancelled, parse_call, entities, provider, refresh, time_call, now, config_entry, features, last_update_check,
                    force_update_requested, cached_update_results,
                    cached_registry_responses, prev_live_days >>

\* one iteration of the loop of _handle_custom_features_for_endpoint: the
\* next container is handled; o is what the registry does if it is asked
HandleContainer(o) ==
    /\ lock
    /\ ~cancelled
    /\ todo # <<>>
    /\ LET c == Head(todo)
           r == check_image_updates(c, o)
       IN  IF features
           THEN /\ cached_update_results' = r.results
                /\ cached_registry_responses' = r.responses
                /\ registry_checked' = (registry_checked \/ r.result.registry_used)
                /\ cycle_live_days' = IF ~r.live THEN cycle_live_days
                                      ELSE IF tainted THEN {None}
                                      ELSE cycle_live_days \cup {Day(now)}
                /\ event' = [ op |-> "check_image_updates", cid |-> c.Id,
                              path |-> r.path, live |-> r.live, result |-> r.result,
                              prior |-> IF r.path = "cached"
                                        THEN cached_update_results[c.Id]
                                        ELSE NoResult,
                              attrs |-> custom_attributes(r.result) ]
           ELSE /\ event' = Ev("other")
                /\ UNCHANGED << cached_update_results, cached_registry_responses,
                                registry_checked, cycle_live_days >>
    /\ todo' = Tail(todo)
    /\ UNCHANGED << data, registry_call, cancelled, parse_call, entities, provider, refresh, time_call, now, config_entry, features, last_update_check,
                    force_update_requested, lock, force_pc, cycle_ticked,
                    prev_live_days >>

\* the end of get_containers and of _async_update_data: the check is
\* recorded and the lock released
CycleEnd ==
    /\ lock
    /\ ~cancelled
    /\ todo = <<>>
    /\ last_update_check' = IF registry_checked THEN now ELSE last_update_check
    /\ lock' = FALSE
    /\ registry_checked' = FALSE
    /\ force_pc' = IF force_pc = "refreshing" THEN "done" ELSE force_pc
    /\ cycle_ticked' = FALSE
    /\ prev_live_days' = IF tainted THEN {None}
                         ELSE (prev_live_days \cup cycle_live_days) \cap {Day(now)}
    /\ cycle_live_days' = {}
    /\ data' = "snapshot"
    /\ event' = Ev("other")
    /\ UNCHANGED << registry_call, cancelled, parse_call, entities, provider, refresh, time_call, now, config_entry, features, force_update_requested,
                    cached_update_results, cached_registry_responses, todo >>

\* a Portainer query of the cycle raises: _async_update_data releases the
\* lock and raises UpdateFailed
CycleFail ==
    /\ lock
    /\ ~cancelled
    /\ todo # <<>> \/ ~registry_checked
    /\ lock' = FALSE
    /\ todo' = <<>>
    /\ registry_checked' = FALSE
    /\ force_pc' = IF force_pc = "refreshing" THEN "done" ELSE force_pc
    /\ cycle_ticked' = FALSE
    /\ prev_live_days' = IF tainted THEN {None}
                         ELSE (prev_live_days \cup cycle_live_days) \cap {Day(now)}
    /\ cycle_live_days' = {}
    /\ event' = Ev("other")
    /\ UNCHANGED << data, registry_call, cancelled, parse_call, entities, provider, refresh, time_call, now, config_entry, features, last_update_check,
                    force_update_requested, cached_update_results,
                    cached_registry_responses >>

\* the task running _async_update_data is cancelled while it awaits a worker
\* job: CancelledError is not an Exception, so no release runs and the lock
\* stays held; the job already running in the worker finishes get_containers
CycleCancel ==
    /\ lock
    /\ ~cancelled
    /\ todo = <<>>
    /\ force_pc # "refreshing"
    /\ cancelled' = TRUE
    /\ last_update_check' = IF registry_checked THEN now ELSE last_update_check
    /\ registry_checked' = FALSE
    /\ cycle_ticked' = FALSE
    /\ prev_live_days' = IF tainted THEN {None}
                         ELSE (prev_live_days \cup cycle_live_days) \cap {Day(now)}
    /\ cycle_live_days' = {}
    /\ event' = Ev("refresh_cancelled")
    /\ UNCHANGED << data, registry_call, parse_call, entities, provider, refresh, time_call, now, config_entry, features,
                    force_update_requested, cached_update_results,
                    cached_registry_responses, lock, todo, force_pc >>

\* what a query of the Portainer API client does: it answers with the
\* decoded data, or it fails
api_query_results == { "data", "failed" }

\* a due check_image_updates call whose _get_registry_response resolves the
\* image's architecture and OS with a Portainer query that fails; the lookup
\* runs before the try block, so the failure leaves check_image_updates and
\* get_containers, and _async_update_data releases the lock and raises
\* UpdateFailed
ArchOsFail(q) ==
    /\ q = "failed"
    /\ lock
    /\ ~cancelled
    /\ todo # <<>>
    /\ features
    /\ Head(todo).Image # <<>>
    /\ should_check_updates
    /\ cached_registry_responses' = _invalidate_cache_if_needed
    /\ lock' = FALSE
    /\ todo' = <<>>
    /\ registry_checked' = FALSE
    /\ force_pc' = IF force_pc = "refreshing" THEN "done" ELSE force_pc
    /\ cycle_ticked' = FALSE
    /\ prev_live_days' = IF tainted THEN {None}
                         ELSE (prev_live_days \cup cycle_live_days) \cap {Day(now)}
    /\ cycle_live_days' = {}
    /\ event' = [ Ev("check_image_updates_raised") EXCEPT !.cid = Head(todo).Id ]
    /\ UNCHANGED << data, registry_call, cancelled, parse_call, entities, provider, refresh, time_call, now, config_entry, features, last_update_check,
                    force_update_requested, cached_update_results >>

\* PortainerCoordinator.force_update_check up to its await
force_update_check ==
    /\ force_pc = "idle"
    /\ IF ~features
       THEN /\ event' = [ Ev("force_update_check") EXCEPT !.path = "disabled" ]
            /\ UNCHANGED << force_update_requested, cached_update_results,
                            cached_registry_responses, last_update_check,
                            force_pc, prev_live_days >>
       ELSE /\ force_update_requested' = TRUE
            /\ cached_update_results' = EmptyMap
            /\ cached_registry_responses' = EmptyMap
            /\ last_update_check' = now
            /\ force_pc' = "requested"
            /\ prev_live_days' = {None}
            /\ event' = [ Ev("force_update_check") EXCEPT !.path = "enabled" ]
    /\ UNCHANGED << data, registry_call, cancelled, parse_call, entities, provider, refresh, time_call, now, config_entry, features, lock, todo, registry_checked,
                    cycle_ticked, cycle_live_days >>

\* the refresh requested by force_update_check finds the lock held for 10 s:
\* _async_update_data returns {} without a cycle, and {} becomes the data
ForceRefreshTimeout ==
    /\ force_pc = "requested"
    /\ lock
    /\ force_pc' = "done"
    /\ data' = "empty"
    /\ event' = Ev("refresh_timeout")
    /\ UNCHANGED << registry_call, cancelled, parse_call, entities, provider, refresh, time_call, now, config_entry, features, last_update_check,
                    force_update_requested, cached_update_results,
                    cached_registry_responses, lock, todo, registry_checked,
                    cycle_ticked, cycle_live_days, prev_live_days >>

\* a periodic refresh finds the lock held for 10 s: _async_update_data
\* returns {} without a cycle, and {} becomes the data
RefreshTimeout ==
    /\ lock
    /\ data' = "empty"
    /\ event' = Ev("refresh_timeout")
    /\ UNCHANGED << registry_call, cancelled, parse_call, entities, provider, refresh, time_call, now, config_entry, features, last_update_check,
                    force_update_requested, cached_update_results,
                    cached_registry_responses, lock, todo, registry_checked,
                    force_pc, cycle_ticked, cycle_live_days, prev_live_days >>

\* ForceReturn with a bug: the force flag is not reset
ForceReturn_keeping_flag ==
    /\ force_pc = "done"
    /\ force_pc' = "idle"
    /\ event' = Ev("force_update_check_return")
    /\ UNCHANGED << data, registry_call, cancelled, parse_call, entities, provider, refresh, time_call, now, config_entry, features, last_update_check,
                    force_update_requested, cached_update_results,
                    cached_registry_responses, lock, todo, registry_checked,
                    cycle_ticked, cycle_live_days, prev_live_days >>

\* PortainerCoordinator.force_update_check after its await
ForceReturn ==
    /\ force_pc = "done"
    /\ force_update_requested' = FALSE
    /\ force_pc' = "idle"
    /\ event' = Ev("force_update_check_return")
    /\ UNCHANGED << data, registry_call, cancelled, parse_call, entities, provider, refresh, time_call, now, config_entry, features, last_update_check,
                    cached_update_results, cached_registry_responses, lock, todo,
                    registry_checked, cycle_ticked, cycle_live_days,
                    prev_live_days >>

Next ==
    \/ \E d \in 1..MaxTime : Tick(d)
    \/ \E options \in Options : async_update_entry(options)
    \/ \E listing \in Listings : CycleStart(listing)
    \/ \E o \in Outcomes : HandleContainer(o)
    \/ CycleEnd
    \/ CycleFail
    \/ CycleCancel
    \/ \E q \in api_query_results : ArchOsFail(q)
    \/ force_update_check
    \/ ForceRefreshTimeout
    \/ RefreshTimeout
    \/ ForceReturn

Spec == Init /\ [][Next]_vars

(* --------------------------- registry client -------------------------- *)
\* media types of a manifest list and of a single manifest
MANIFEST_LIST_TYPES ==
    { "application/vnd.docker.distribution.manifest.list.v2+json",
      "application/vnd.oci.image.index.v1+json" }
MANIFEST_TYPES ==
    { "application/vnd.docker.distribution.manifest.v2+json",
      "application/vnd.oci.image.manifest.v1+json" }

\* a single manifest; config_digest is config.digest, <<>> when it is missing
Manifest(mediaType, schemaVersion, config_digest) ==
    [ mediaType |-> mediaType, schemaVersion |-> schemaVersion,
      config_digest |-> config_digest, manifests |-> <<>> ]

\* a manifest list with its entries
ManifestList(mediaType, entries) ==
    [ mediaType |-> mediaType, schemaVersion |-> 2, config_digest |-> <<>>,
      manifests |-> entries ]

\* the manifest the registry serves at digest d
Fetch(d) ==
    Manifest("application/vnd.docker.distribution.manifest.v2+json", 2,
             SHA256_PREFIX \o <<d>>)

\* what get_manifest ends with: the manifest it returns, or what it raises
Returned(manifest) == [ kind |-> "ok", code |-> 200, manifest |-> manifest ]
Raised(kind, code) == [ kind |-> kind, code |-> code, manifest |-> Manifest("", 0, <<>>) ]

RECURSIVE _get_platform_manifest_arch_only(_, _, _, _)
RECURSIVE _get_platform_manifest(_, _, _, _)

\* _get_platform_manifest with a bug: the os of an entry is not compared
_get_platform_manifest_arch_only(arch, os, entries, env) ==
    IF entries = <<>>
    THEN Raised("ValueError", 0)
    ELSE LET entry == Head(entries)
         IN  IF entry.architecture = arch
             THEN IF entry.digest = ""
                  THEN _get_platform_manifest_arch_only(arch, os, Tail(entries), env)
                  ELSE IF env.sub_status = 200
                       THEN Returned(Fetch(entry.digest))
                       ELSE Raised("HTTPError", env.sub_status)
             ELSE _get_platform_manifest_arch_only(arch, os, Tail(entries), env)

\* BaseRegistry._get_platform_manifest over the entries not yet looked at
_get_platform_manifest(arch, os, entries, env) ==
    IF entries = <<>>
    THEN Raised("ValueError", 0)
    ELSE LET entry == Head(entries)
         IN  IF entry.architecture = arch /\ entry.os = os
             THEN IF entry.digest = ""
                  THEN _get_platform_manifest(arch, os, Tail(entries), env)
                  ELSE IF env.sub_status = 200
                       THEN Returned(Fetch(entry.digest))
                       ELSE Raised("HTTPError", env.sub_status)
             ELSE _get_platform_manifest(arch, os, Tail(entries), env)

\* BaseRegistry.get_manifest for the requested arch and os ("" when not
\* given) against a registry that behaves as env says
get_manifest(arch, os, env) ==
    IF env.token = "failed" THEN Raised("HTTPError", 0)
    ELSE IF env.net = "down" THEN Raised("ConnectionError", 0)
    ELSE IF env.status # 200 THEN Raised("HTTPError", env.status)
    ELSE LET manifest == env.body
         IN  IF /\ arch # ""
                /\ os # ""
                /\ manifest.mediaType \in MANIFEST_LIST_TYPES
             THEN _get_platform_manifest(arch, os, manifest.manifests, env)
             ELSE Returned(manifest)

\* PortainerCoordinator._add_digest_to_manifest: the manifest's Id afterwards
_add_digest_to_manifest(manifest) ==
    IF /\ manifest.schemaVersion = 2
       /\ manifest.mediaType \in MANIFEST_TYPES
       /\ manifest.config_digest # <<>>
    THEN manifest.config_digest
    ELSE <<>>

\* what the try block of _get_registry_response sees of the registry client
RegistryOutcome(m) ==
    IF m.kind = "ok"
    THEN [ kind |-> "ok", code |-> 200, Id |-> _add_digest_to_manifest(m.manifest) ]
    ELSE [ kind |-> m.kind, code |-> m.code, Id |-> <<>> ]

\* image ids and config digests
IdStrings ==
    { <<>>, <<"a">>, <<"b">>, SHA256_PREFIX, SHA256_PREFIX \o <<"a">>,
      SHA256_PREFIX \o SHA256_PREFIX \o <<"a">> }

\* the containers of the registry calls
RegistryContainers == { [ Id |-> "c1", Image |-> <<"n">>, ImageID |-> i ] : i \in IdStrings }

\* the platforms asked for: arch and os as _get_arch_and_os found them
Platforms == { <<"amd64", "linux">>, <<"arm64", "linux">>, <<"", "">> }

\* the entries of a manifest list
Entries ==
    [ architecture : { "amd64", "arm64" }, os : { "linux" }, digest : { "", "a", "b" } ]
    \cup [ architecture : { "amd64" }, os : { "windows" }, digest : { "", "a", "b" } ]

EntryLists == UNION { [ 1..n -> Entries ] : n \in 0..MaxEntries }

\* the documents a registry answers a manifest request with
Bodies ==
    { Manifest("application/vnd.docker.distribution.manifest.v2+json", 2, i) : i \in IdStrings }
    \cup { Manifest("application/vnd.oci.image.manifest.v1+json", 2, SHA256_PREFIX \o <<"b">>),
           Manifest("application/vnd.docker.distribution.manifest.v1+json", 1, SHA256_PREFIX \o <<"b">>),
           Manifest("", 2, SHA256_PREFIX \o <<"b">>) }
    \cup { ManifestList("application/vnd.docker.distribution.manifest.list.v2+json", l) :
             l \in EntryLists }
    \cup { ManifestList("application/vnd.oci.image.index.v1+json", <<e>>) : e \in Entries }

\* the ways a registry behaves during one get_manifest call
RegistryEnvs ==
    { [ token |-> "failed", net |-> "ok", status |-> 0, body |-> Manifest("", 0, <<>>),
        sub_status |-> 0 ],
      [ token |-> "ok", net |-> "down", status |-> 0, body |-> Manifest("", 0, <<>>),
        sub_status |-> 0 ] }
    \cup { [ token |-> "ok", net |-> "ok", status |-> st, body |-> Manifest("", 0, <<>>),
             sub_status |-> 0 ] : st \in { 401, 403, 404, 429, 500, 503 } }
    \cup { [ token |-> "ok", net |-> "ok", status |-> 200, body |-> b, sub_status |-> st ] :
             b \in Bodies, st \in { 200, 404 } }

\* the state of a coordinator in a cycle whose checks are due, about to check
\* one container: the container, the platform found for its image (arch, os)
\* and the way the registry is going to behave
InitRegistry ==
    /\ now = 0
    /\ config_entry = [ feature_switch_update_check |-> TRUE, update_check_time |-> 0 ]
    /\ features = TRUE
    /\ last_update_check = None
    /\ force_update_requested = FALSE
    /\ cached_update_results = EmptyMap
    /\ cached_registry_responses = EmptyMap
    /\ lock = TRUE
    /\ todo = <<>>
    /\ registry_checked = FALSE
    /\ force_pc = "idle"
    /\ event = Ev("other")
    /\ cycle_ticked = FALSE
    /\ cycle_live_days = {}
    /\ prev_live_days = {}
    /\ data = "none"
    /\ cancelled = FALSE
    /\ parse_call = NoCall
    /\ entities = NoCall
    /\ provider = NoCall
    /\ refresh = NoCall
    /\ time_call = NoCall
    /\ \E c \in RegistryContainers, platform \in Platforms, env \in RegistryEnvs :
          registry_call = [ op |-> "pending", container |-> c,
                            arch |-> platform[1], os |-> platform[2], env |-> env,
                            outcome |-> Raised("none", 0), result |-> NoResult ]

\* the due check_image_updates call, looked at on its own: what get_manifest
\* ends with and the result the call returns
RegistryCall ==
    LET m == get_manifest(registry_call.arch, registry_call.os, registry_call.env)
    IN  /\ registry_call.op = "pending"
        /\ registry_call' =
              [ registry_call EXCEPT
                  !.op = "get_manifest",
                  !.outcome = m,
                  !.result = check_image_updates(registry_call.container,
                                                 RegistryOutcome(m)).result ]
        /\ UNCHANGED << now, config_entry, features, last_update_check,
                        force_update_requested, cached_update_results,
                        cached_registry_responses, lock, todo, registry_checked,
                        force_pc, event, cycle_ticked, cycle_live_days,
                        prev_live_days, data, cancelled, parse_call, entities, provider, refresh, time_call >>

NextRegistry == RegistryCall

SpecRegistry == InitRegistry /\ [][NextRegistry]_vars

(* ------------------------- image names, parsed ------------------------ *)
\* the characters image names are made of: a letter and the separators the
\* parser looks at
Alphabet == { "a", "/", ":", ".", "@" }

\* the names of at most MaxLen characters
Names == UNION { [ 1..n -> Alphabet ] : n \in 0..MaxLen }

\* the registry hosts a name can be put under: none, the Docker Hub aliases
\* with and without port 443, and another registry
RegistryPrefixes ==
    { <<>> } \cup
    { host \o <<"/">> : host \in { DOCKER_IO, DOCKER_IO_REGISTRY, DOCKER_IO \o PORT_443,
                                   DOCKER_IO_REGISTRY \o PORT_443, GHCR_IO } }

\* a digest suffix; one character stands for the 64 hex digits
DIGEST_SUFFIX == <<"@">> \o SHA256_PREFIX \o <<"h">>

\* an idle coordinator and one image name about to be parsed
InitParser ==
    /\ now = 0
    /\ config_entry = [ feature_switch_update_check |-> TRUE, update_check_time |-> 0 ]
    /\ features = TRUE
    /\ last_update_check = None
    /\ force_update_requested = FALSE
    /\ cached_update_results = EmptyMap
    /\ cached_registry_responses = EmptyMap
    /\ lock = FALSE
    /\ todo = <<>>
    /\ registry_checked = FALSE
    /\ force_pc = "idle"
    /\ event = Ev("other")
    /\ cycle_ticked = FALSE
    /\ cycle_live_days = {}
    /\ prev_live_days = {}
    /\ data = "none"
    /\ registry_call = NoCall
    /\ cancelled = FALSE
    /\ entities = NoCall
    /\ provider = NoCall
    /\ refresh = NoCall
    /\ time_call = NoCall
    /\ \E prefix \in RegistryPrefixes, name \in Names :
          parse_call = [ op |-> "pending", prefix |-> prefix, name |-> name,
                         image_name |-> prefix \o name,
                         result |-> parse_image_name(<<>>),
                         with_digest |-> parse_image_name(<<>>),
                         reparsed |-> parse_image_name(<<>>),
                         provider |-> "none" ]

\* BaseRegistry.parse_image_name called for the image name, for the image
\* name followed by a digest, and for the image_key of the first answer;
\* BaseRegistry.for_registry called as _get_registry_response calls it
ParseCall ==
    /\ parse_call.op = "pending"
    /\ LET result == parse_image_name(parse_call.image_name)
       IN  parse_call' =
              [ parse_call EXCEPT
                  !.op = "parse_image_name",
                  !.result = result,
                  !.with_digest = parse_image_name(parse_call.image_name \o DIGEST_SUFFIX),
                  !.reparsed = parse_image_name(result.image_key),
                  !.provider = for_registry(result.image_repo, result.registry) ]
    /\ UNCHANGED << now, config_entry, features, last_update_check,
                    force_update_requested, cached_update_results,
                    cached_registry_responses, lock, todo, registry_checked,
                    force_pc, event, cycle_ticked, cycle_live_days,
                    prev_live_days, data, registry_call, cancelled, entities,
                    provider, refresh, time_call >>

NextParser == ParseCall

SpecParser == InitParser /\ [][NextParser]_vars

(* ------------------------- update-check entities ---------------------- *)
\* const.DEFAULT_FEATURE_UPDATE_CHECK
DEFAULT_FEATURE_UPDATE_CHECK == FALSE

\* the option sets of a config entry, also one that has no
\* feature_switch_update_check
EntityOptions ==
    Options \cup [ update_check_time : 0..(SlotsPerDay - 1) ]

\* options.get(CONF_FEATURE_UPDATE_CHECK, DEFAULT_FEATURE_UPDATE_CHECK)
options_get(options) ==
    IF "feature_switch_update_check" \in DOMAIN options
    THEN options.feature_switch_update_check
    ELSE DEFAULT_FEATURE_UPDATE_CHECK

\* ForceUpdateCheckButton.available and UpdateCheckSensor.available: the
\* option is read from the config entry and must be the boolean True, and
\* the coordinator must be connected
available ==
    LET feature_enabled == options_get(config_entry) = TRUE
        coordinator_connected == entities.connected
    IN  feature_enabled /\ coordinator_connected

\* what an availability query answered
Answer(b) == IF b THEN "available" ELSE "unavailable"

\* a coordinator with its button and its sensor, neither asked yet
InitEntities ==
    /\ now = 0
    /\ config_entry \in EntityOptions
    /\ features = options_get(config_entry)
    /\ last_update_check = None
    /\ force_update_requested = FALSE
    /\ cached_update_results = EmptyMap
    /\ cached_registry_responses = EmptyMap
    /\ lock = FALSE
    /\ todo = <<>>
    /\ registry_checked = FALSE
    /\ force_pc = "idle"
    /\ event = Ev("other")
    /\ cycle_ticked = FALSE
    /\ cycle_live_days = {}
    /\ prev_live_days = {}
    /\ data = "none"
    /\ registry_call = NoCall
    /\ cancelled = FALSE
    /\ parse_call = NoCall
    /\ provider = NoCall
    /\ refresh = NoCall
    /\ time_call = NoCall
    /\ \E c \in BOOLEAN :
          entities = [ op |-> "created", connected |-> c,
                       button |-> "not_asked", sensor |-> "not_asked" ]

\* the options of the config entry are replaced; the entities stay
OptionsChanged(options) ==
    /\ config_entry' = options
    /\ entities' = [ entities EXCEPT !.op = "options" ]
    /\ UNCHANGED << now, features, last_update_check, force_update_requested,
                    cached_update_results, cached_registry_responses, lock, todo,
                    registry_checked, force_pc, event, cycle_ticked,
                    cycle_live_days, prev_live_days, data, registry_call,
                    cancelled, parse_call,
                    provider, refresh, time_call >>

\* ForceUpdateCheckButton.async_update_entry: the button hands the new config
\* entry to the coordinator; the coordinator's features are not touched
button_async_update_entry(options) ==
    /\ config_entry' = options
    /\ entities' = [ entities EXCEPT !.op = "button.async_update_entry" ]
    /\ UNCHANGED << now, features, last_update_check, force_update_requested,
                    cached_update_results, cached_registry_responses, lock, todo,
                    registry_checked, force_pc, event, cycle_ticked,
                    cycle_live_days, prev_live_days, data, registry_call,
                    cancelled, parse_call,
                    provider, refresh, time_call >>

\* PortainerCoordinator.connected: the connection to Portainer is up or down
Connection(c) ==
    /\ entities' = [ entities EXCEPT !.op = "connection", !.connected = c ]
    /\ UNCHANGED << now, config_entry, features, last_update_check,
                    force_update_requested, cached_update_results,
                    cached_registry_responses, lock, todo, registry_checked,
                    force_pc, event, cycle_ticked, cycle_live_days,
                    prev_live_days, data, registry_call, cancelled, parse_call,
                    provider, refresh, time_call >>

\* ForceUpdateCheckButton.available is queried
ButtonAvailable ==
    /\ entities' = [ entities EXCEPT !.op = "button.available",
                                     !.button = Answer(available) ]
    /\ UNCHANGED << now, config_entry, features, last_update_check,
                    force_update_requested, cached_update_results,
                    cached_registry_responses, lock, todo, registry_checked,
                    force_pc, event, cycle_ticked, cycle_live_days,
                    prev_live_days, data, registry_call, cancelled, parse_call,
                    provider, refresh, time_call >>

\* UpdateCheckSensor.available is queried
SensorAvailable ==
    /\ entities' = [ entities EXCEPT !.op = "sensor.available",
                                     !.sensor = Answer(available) ]
    /\ UNCHANGED << now, config_entry, features, last_update_check,
                    force_update_requested, cached_update_results,
                    cached_registry_responses, lock, todo, registry_checked,
                    force_pc, event, cycle_ticked, cycle_live_days,
                    prev_live_days, data, registry_call, cancelled, parse_call,
                    provider, refresh, time_call >>

NextEntities ==
    \/ \E options \in EntityOptions : OptionsChanged(options)
    \/ \E options \in EntityOptions : button_async_update_entry(options)
    \/ \E options \in Options : async_update_entry(options)
    \/ \E c \in BOOLEAN : Connection(c)
    \/ ButtonAvailable
    \/ SensorAvailable

SpecEntities == InitEntities /\ [][NextEntities]_vars

(* --------------------------- registry tokens -------------------------- *)
\* One provider instance, its token, and the clock of time.time().  One unit
\* of the clock is 30 seconds, the margin the providers subtract from
\* expires_in.

MaxClock == 3
MaxExpiresIn == 2

\* float("inf")
INF == MaxClock + MaxExpiresIn + 1

\* the personal access token handed to GHCRRegistry, and the token the token
\* endpoint issues at time t
PAT == 0
IssuedToken(t) == t + 1

TokenAnswer(p, token, expiry, returned, requested) ==
    [ p EXCEPT !._token = token, !._token_expiry = expiry,
               !.returned = returned, !.requested = requested ]

\* DockerIORegistry._get_token: always asks the token endpoint; a refusal raises
DockerIORegistry_get_token(p, ok, expires_in) ==
    IF ok
    THEN TokenAnswer(p, IssuedToken(p.time), p.time + expires_in - 1,
                     IssuedToken(p.time), TRUE)
    ELSE TokenAnswer(p, p._token, p._token_expiry, None, TRUE)

\* GHCRRegistry._get_token: a token that is set is returned as it is; only
\* without one the anonymous endpoint is asked
GHCRRegistry_get_token(p, ok, expires_in) ==
    IF p._token # None
    THEN TokenAnswer(p, p._token, p._token_expiry, p._token, FALSE)
    ELSE IF ok
         THEN TokenAnswer(p, IssuedToken(p.time), p.time + expires_in - 1,
                          IssuedToken(p.time), TRUE)
         ELSE TokenAnswer(p, p._token, p._token_expiry, None, TRUE)

\* BaseRegistry._get_valid_token
_get_valid_token(p, ok, expires_in) ==
    IF p._token = None \/ p.time > p._token_expiry
    THEN IF p.kind = "DockerIORegistry"
         THEN DockerIORegistry_get_token(p, ok, expires_in)
         ELSE GHCRRegistry_get_token(p, ok, expires_in)
    ELSE TokenAnswer(p, p._token, p._token_expiry, p._token, FALSE)

\* BaseRegistry.__init__ and GHCRRegistry.__init__
NewProvider(kind, token) ==
    [ op |-> "created", kind |-> kind, time |-> 0,
      _token |-> token,
      _token_expiry |-> IF token # None THEN INF ELSE 0,
      returned |-> None, requested |-> FALSE, valid_before |-> FALSE ]

InitToken ==
    /\ now = 0
    /\ config_entry = [ feature_switch_update_check |-> TRUE, update_check_time |-> 0 ]
    /\ features = TRUE
    /\ last_update_check = None
    /\ force_update_requested = FALSE
    /\ cached_update_results = EmptyMap
    /\ cached_registry_responses = EmptyMap
    /\ lock = FALSE
    /\ todo = <<>>
    /\ registry_checked = FALSE
    /\ force_pc = "idle"
    /\ event = Ev("other")
    /\ cycle_ticked = FALSE
    /\ cycle_live_days = {}
    /\ prev_live_days = {}
    /\ data = "none"
    /\ registry_call = NoCall
    /\ cancelled = FALSE
    /\ parse_call = NoCall
    /\ entities = NoCall
    /\ refresh = NoCall
    /\ time_call = NoCall
    /\ provider \in { NewProvider("DockerIORegistry", None),
                      NewProvider("GHCRRegistry", None),
                      NewProvider("GHCRRegistry", PAT) }

\* time.time() moves on
ClockTick ==
    /\ provider.time < MaxClock
    /\ provider' = [ provider EXCEPT !.op = "tick", !.time = @ + 1 ]
    /\ UNCHANGED << now, config_entry, features, last_update_check,
                    force_update_requested, cached_update_results,
                    cached_registry_responses, lock, todo, registry_checked,
                    force_pc, event, cycle_ticked, cycle_live_days,
                    prev_live_days, data, registry_call, cancelled, parse_call,
                    entities, refresh, time_call >>

\* get_manifest asks for the token it will send; the token endpoint, when it
\* is asked, answers or refuses
GetValidToken(ok, expires_in) ==
    /\ provider' =
          [ _get_valid_token(provider, ok, expires_in) EXCEPT
              !.op = "_get_valid_token",
              !.valid_before = /\ provider._token # None
                               /\ provider.time <= provider._token_expiry ]
    /\ UNCHANGED << now, config_entry, features, last_update_check,
                    force_update_requested, cached_update_results,
                    cached_registry_responses, lock, todo, registry_checked,
                    force_pc, event, cycle_ticked, cycle_live_days,
                    prev_live_days, data, registry_call, cancelled, parse_call,
                    entities, refresh, time_call >>

NextToken ==
    \/ ClockTick
    \/ \E ok \in BOOLEAN, expires_in \in 1..MaxExpiresIn :
          GetValidToken(ok, expires_in)

SpecToken == InitToken /\ [][NextToken]_vars

(* ------------------------- refresh and shutdown ----------------------- *)
\* The refresh tasks of one coordinator, each at an await of
\* _async_update_data, and async_shutdown running between them.

MaxTasks == 2

Tasks == 1..MaxTasks

\* the awaits of _async_update_data while the lock is held, in order
Jobs == << "get_endpoints", "get_containers", "get_system_data" >>

InCriticalSection(t) == refresh.pc[t] # 0

\* asyncio.Lock.release: releasing a lock that is not held raises RuntimeError
lock_release(held) ==
    [ lock |-> FALSE, error |-> IF held THEN "none" ELSE "RuntimeError" ]

InitShutdown ==
    /\ now = 0
    /\ config_entry = [ feature_switch_update_check |-> TRUE, update_check_time |-> 0 ]
    /\ features = TRUE
    /\ last_update_check = None
    /\ force_update_requested = FALSE
    /\ cached_update_results = EmptyMap
    /\ cached_registry_responses = EmptyMap
    /\ lock = FALSE
    /\ todo = <<>>
    /\ registry_checked = FALSE
    /\ force_pc = "idle"
    /\ event = Ev("other")
    /\ cycle_ticked = FALSE
    /\ cycle_live_days = {}
    /\ prev_live_days = {}
    /\ data = "none"
    /\ registry_call = NoCall
    /\ cancelled = FALSE
    /\ parse_call = NoCall
    /\ entities = NoCall
    /\ provider = NoCall
    /\ time_call = NoCall
    /\ refresh = [ op |-> "created", task |-> 0, pc |-> [ t \in Tasks |-> 0 ],
                   error |-> "none", shutdown |-> FALSE ]

ShutdownFrame ==
    UNCHANGED << now, config_entry, features, last_update_check,
                 force_update_requested, cached_update_results,
                 cached_registry_responses, todo, registry_checked, force_pc,
                 event, cycle_ticked, cycle_live_days, prev_live_days, data,
                 registry_call, cancelled, parse_call, entities, provider,
                 time_call >>

\* _async_update_data: lock.acquire() succeeds and the first job is awaited
RefreshAcquire(t) ==
    /\ refresh.pc[t] = 0
    /\ ~lock
    /\ lock' = TRUE
    /\ refresh' = [ refresh EXCEPT !.op = "acquire", !.task = t, !.pc[t] = 1 ]
    /\ ShutdownFrame

\* _async_update_data: the lock stays taken for ten seconds, {} is returned
RefreshAcquireTimeout(t) ==
    /\ refresh.pc[t] = 0
    /\ lock
    /\ refresh' = [ refresh EXCEPT !.op = "acquire_timeout", !.task = t ]
    /\ UNCHANGED lock
    /\ ShutdownFrame

\* _async_update_data: one job has returned and the next is awaited
RefreshJob(t) ==
    /\ refresh.pc[t] \in 1..(Len(Jobs) - 1)
    /\ refresh' = [ refresh EXCEPT !.op = Jobs[refresh.pc[t]], !.task = t,
                                   !.pc[t] = @ + 1 ]
    /\ UNCHANGED lock
    /\ ShutdownFrame

\* _async_update_data: the last job has returned, or a job has raised; either
\* way self.lock.release() is called
RefreshRelease(t, failed) ==
    /\ InCriticalSection(t)
    /\ failed \/ refresh.pc[t] = Len(Jobs)
    /\ LET r == lock_release(lock)
       IN  /\ lock' = r.lock
           /\ refresh' = [ refresh EXCEPT
                             !.op = IF failed THEN "release_failed" ELSE "release",
                             !.task = t, !.pc[t] = 0,
                             !.error = IF r.error # "none" THEN r.error ELSE @ ]
    /\ ShutdownFrame

\* PortainerCoordinator.async_shutdown
async_shutdown ==
    /\ lock' = IF lock THEN lock_release(lock).lock ELSE lock
    /\ refresh' = [ refresh EXCEPT !.op = "async_shutdown", !.task = 0,
                                   !.shutdown = TRUE ]
    /\ ShutdownFrame

NextShutdown ==
    \/ \E t \in Tasks : RefreshAcquire(t)
    \/ \E t \in Tasks : RefreshAcquireTimeout(t)
    \/ \E t \in Tasks : RefreshJob(t)
    \/ \E t \in Tasks, failed \in BOOLEAN : RefreshRelease(t, failed)
    \/ async_shutdown

SpecShutdown == InitShutdown /\ [][NextShutdown]_vars

(* ------------------------- update_check_time strings ------------------ *)
\* The update_check_time string of the stored options, character by
\* character, what the update_check_time property makes of it, and whether
\* the scheduler functions get through datetime.replace with it.

MaxTimeLen == 5

TimeAlphabet == { "0", "2", "6", ":", "-", "a" }

DigitValue == [ c \in { "0", "2", "6" } |-> IF c = "0" THEN 0 ELSE IF c = "2" THEN 2 ELSE 6 ]

IsDigit(c) == c \in DOMAIN DigitValue

\* the stored strings of at most MaxTimeLen characters
TimeStrings == UNION { [ 1..n -> TimeAlphabet ] : n \in 0..MaxTimeLen }

\* const.DEFAULT_UPDATE_CHECK_TIME
DEFAULT_UPDATE_CHECK_TIME == << "0", "2", ":", "0", "0" >>

\* str.split(":"): the pieces between the colons, empty ones included
RECURSIVE split(_)
split(s) ==
    IF Contains(s, ":")
    THEN << Before(s, FirstIndex(s, ":")) >> \o split(After(s, FirstIndex(s, ":")))
    ELSE << s >>

\* the value of a string of decimal digits
RECURSIVE Decimal(_)
Decimal(s) ==
    IF s = <<>> THEN 0
    ELSE 10 * Decimal(SubSeq(s, 1, Len(s) - 1)) + DigitValue[s[Len(s)]]

\* int(x): digits with an optional sign, anything else is a ValueError
int(x) ==
    LET digits == IF x # <<>> /\ x[1] = "-" THEN Tail(x) ELSE x
        ok == digits # <<>> /\ \A i \in 1..Len(digits) : IsDigit(digits[i])
    IN  [ ok |-> ok,
          value |-> IF ~ok THEN 0
                    ELSE IF x[1] = "-" THEN 0 - Decimal(digits) ELSE Decimal(digits) ]

\* PortainerCoordinator.update_check_time on the stored string: <<hour, minute>>
parse_update_check_time(time_str) ==
    LET parts == split(time_str)
        raised == \/ \E i \in 1..Len(parts) : ~int(parts[i]).ok
                  \/ Len(parts) # 2
    IN  IF raised THEN << 2, 0 >>
        ELSE << int(parts[1]).value, int(parts[2]).value >>

\* datetime.replace(hour=, minute=) raises ValueError outside 0..23 and 0..59
replace_raises(hm) == ~(hm[1] \in 0..23 /\ hm[2] \in 0..59)

\* config_flow.validate_time_string: ^([01]?[0-9]|2[0-3]):([0-5]?[0-9])$
validate_time_string(value) ==
    LET parts == split(value)
        AllDigits(p) == \A i \in 1..Len(p) : IsDigit(p[i])
        h == parts[1]
        m == parts[2]
    IN  /\ Len(parts) = 2
        /\ AllDigits(h) /\ AllDigits(m)
        /\ \/ Len(h) = 1
           \/ Len(h) = 2 /\ DigitValue[h[1]] <= 1
           \/ Len(h) = 2 /\ DigitValue[h[1]] = 2 /\ DigitValue[h[2]] <= 3
        /\ \/ Len(m) = 1
           \/ Len(m) = 2 /\ DigitValue[m[1]] <= 5

InitTime ==
    /\ now = 0
    /\ config_entry = [ feature_switch_update_check |-> TRUE, update_check_time |-> 0 ]
    /\ features = TRUE
    /\ last_update_check = None
    /\ force_update_requested = FALSE
    /\ cached_update_results = EmptyMap
    /\ cached_registry_responses = EmptyMap
    /\ lock = FALSE
    /\ todo = <<>>
    /\ registry_checked = FALSE
    /\ force_pc = "idle"
    /\ event = Ev("other")
    /\ cycle_ticked = FALSE
    /\ cycle_live_days = {}
    /\ prev_live_days = {}
    /\ data = "none"
    /\ registry_call = NoCall
    /\ cancelled = FALSE
    /\ parse_call = NoCall
    /\ entities = NoCall
    /\ provider = NoCall
    /\ refresh = NoCall
    /\ \E present \in BOOLEAN, s \in TimeStrings :
          /\ ~present => s = <<>>
          /\ time_call = [ op |-> "stored", present |-> present, stored |-> s,
                           time_str |-> <<>>, hm |-> << 0, 0 >>,
                           should_check_updates_raises |-> FALSE,
                           get_next_update_check_time_raises |-> FALSE ]

\* with the update check enabled and no force requested, should_check_updates
\* and get_next_update_check_time read the property and call now.replace
ReadUpdateCheckTime ==
    /\ time_call.op = "stored"
    /\ LET time_str == IF time_call.present THEN time_call.stored
                       ELSE DEFAULT_UPDATE_CHECK_TIME
           hm == parse_update_check_time(time_str)
       IN  time_call' = [ time_call EXCEPT
                            !.op = "update_check_time",
                            !.time_str = time_str,
                            !.hm = hm,
                            !.should_check_updates_raises =
                                features /\ ~force_update_requested /\ replace_raises(hm),
                            !.get_next_update_check_time_raises =
                                features /\ replace_raises(hm) ]
    /\ UNCHANGED << now, config_entry, features, last_update_check,
                    force_update_requested, cached_update_results,
                    cached_registry_responses, lock, todo, registry_checked,
                    force_pc, event, cycle_ticked, cycle_live_days,
                    prev_live_days, data, registry_call, cancelled, parse_call,
                    entities, provider, refresh >>

NextTime == ReadUpdateCheckTime

SpecTime == InitTime /\ [][NextTime]_vars

(* ------------------------------- claims ------------------------------- *)
\* the closed set of status codes
StatusCodes == { 0, 1, 2, 401, 404, 429, 500 }

\* the step just taken was a call of check_image_updates
Called == event.op = "check_image_updates"

\* C1: the status of every result returned by check_image_updates is one of
\* 0, 1, 2, 401, 404, 429, 500.
C1_StatusClosure ==
    Called => event.result.status \in StatusCodes

\* C2: a result returned by check_image_updates has registry_used True if and
\* only if that call itself sent a request to the registry; a call that is
\* not due and returns the cached verdict reports registry_used False.
C2_RegistryUsedIffLive ==
    Called => (event.result.registry_used <=> event.live)

\* last_update_check moves forward in this step
Advanced ==
    /\ last_update_check' # None
    /\ last_update_check = None \/ last_update_check' > last_update_check

\* C3: last_update_check advances only at the end of a polling cycle in which
\* at least one container check sent a request to the registry; a cycle whose
\* results all came from the cache leaves it unchanged.
C3_AdvancesOnlyOnLiveCycle ==
    [][ /\ Advanced => (lock /\ ~lock' /\ cycle_live_days # {})
        /\ (lock /\ ~lock' /\ cycle_live_days = {})
              => last_update_check' = last_update_check ]_vars

\* C4: without force-check and with a fixed configured time, at most one
\* polling cycle per calendar day sends requests to the registry, and that
\* cycle starts at or after the configured time of that day.
C4_OneLiveCyclePerDay ==
    ~tainted =>
        /\ cycle_live_days \cap prev_live_days = {}
        /\ \A d \in cycle_live_days : cycle_start >= d * SlotsPerDay + update_check_time

\* C5 as stated: once should_check_updates() is True it stays True at every
\* later time, following days included, while last_update_check is unchanged.
C5_MonotoneAcrossDays ==
    [][ (should_check_updates /\ now' > now /\ last_update_check' = last_update_check)
            => should_check_updates' ]_vars

\* C5 as amended: once should_check_updates() is True it stays True, while
\* last_update_check is unchanged, at every later time whose time of day is
\* at or after the configured time (every later time of the same day is one).
C5_MonotoneAfterScheduledTime ==
    [][ ( /\ should_check_updates
          /\ now' > now
          /\ last_update_check' = last_update_check
          /\ TimeOfDay(now') >= update_check_time )
            => should_check_updates' ]_vars

\* a check recorded on an earlier day is due again and stays due after the
\* clock has moved past today's scheduled slot
C5_Witness ==
    /\ features /\ ~force_update_requested
    /\ last_update_check # None
    /\ should_check_updates
    /\ now > Replace(now, update_check_time)

\* C6 as stated: with the feature enabled and no force requested,
\* should_check_updates() is True whenever last_update_check is None.
C6_FirstRunAlwaysDue ==
    (features /\ ~force_update_requested /\ last_update_check = None)
        => should_check_updates

\* C6 as amended: with the feature enabled, no force requested and
\* last_update_check None, should_check_updates() is True exactly when the
\* time of day is at or after the configured time.
C6_FirstRunDueFromScheduledTime ==
    (features /\ ~force_update_requested /\ last_update_check = None)
        => (should_check_updates <=> TimeOfDay(now) >= update_check_time)

\* a call made before today's configured time found no check due although
\* none was ever recorded
C6_Witness ==
    /\ features /\ ~force_update_requested /\ last_update_check = None
    /\ TimeOfDay(now) < update_check_time
    /\ Called /\ event.path = "unchecked"

\* C7: with the feature enabled and no force requested, should_check_updates()
\* is True exactly when now is at or after today's configured time and
\* last_update_check is None or earlier than today's configured time.
C7_DueExactly ==
    (features /\ ~force_update_requested)
        => ( should_check_updates <=>
               /\ TimeOfDay(now) >= update_check_time
               /\ \/ last_update_check = None
                  \/ /\ last_update_check # None
                     /\ \/ Day(last_update_check) < Day(now)
                        \/ /\ Day(last_update_check) = Day(now)
                           /\ TimeOfDay(last_update_check) < update_check_time )

\* a check recorded exactly at today's configured time: no longer due
C7_Witness ==
    /\ features /\ ~force_update_requested
    /\ last_update_check # None
    /\ last_update_check = Replace(now, update_check_time)
    /\ ~should_check_updates

\* C8: with the force flag set and the feature enabled, should_check_updates()
\* is True whatever the time and last_update_check.
C8_ForceOverride ==
    (force_update_requested /\ features) => should_check_updates

\* a forced call before today's configured time asked the registry
C8_Witness ==
    /\ force_update_requested /\ features
    /\ TimeOfDay(now) < update_check_time
    /\ last_update_check # None
    /\ Called /\ event.live

\* C9: while the feature is disabled should_check_updates() is False, also
\* with the force flag set, no call sends a request to the registry, and
\* force_update_check() changes neither the force flag, the caches nor
\* last_update_check and requests no refresh.
C9_DisabledDoesNothing ==
    /\ [](~features => ~should_check_updates)
    /\ [][ ~features =>
             /\ ~(event'.op = "check_image_updates" /\ event'.live)
             /\ event'.op = "force_update_check" =>
                  UNCHANGED << force_update_requested, cached_update_results,
                               cached_registry_responses, last_update_check,
                               force_pc >> ]_vars

\* the feature was disabled while a force-check was in progress
C9_Witness ==
    ~features /\ force_update_requested

\* C10: a call of check_image_updates that is not due returns the verdict
\* cached for the container unchanged if there is one and otherwise status 2
\* with registry_used False, sends no request to the registry and adds no
\* entry to either cache.
C10_NotDueReturnsCached ==
    [][ ( /\ event'.op = "check_image_updates"
          /\ todo # <<>> /\ Head(todo).Image # <<>>
          /\ ~should_check_updates )
        => LET cid == Head(todo).Id
           IN  /\ ~event'.live
               /\ cached_update_results' = cached_update_results
               /\ DOMAIN cached_registry_responses' \subseteq DOMAIN cached_registry_responses
               /\ IF cid \in DOMAIN cached_update_results
                  THEN event'.result = cached_update_results[cid]
                  ELSE event'.result = [ status |-> 2, registry_used |-> FALSE ] ]_vars

\* a call that was not due found no verdict for its container
C10_Witness ==
    /\ Called /\ event.path = "unchecked"
    /\ event.result.status = 2
    /\ cached_update_results # EmptyMap

\* C11: after a due check of container c returned status s, a later call for
\* c that is not due returns status s; the verdict cached for c changes only
\* by a check of c that is due (or finds no image name) or by a force-check,
\* and never by the passage of time.
C11_VerdictKeptUntilReplaced ==
    [][ /\ (event'.op = "check_image_updates" /\ event'.path = "due")
            => /\ event'.cid \in DOMAIN cached_update_results'
               /\ cached_update_results'[event'.cid] = event'.result
        /\ ( /\ event'.op = "check_image_updates"
              /\ ~event'.live
              /\ event'.cid \in DOMAIN cached_update_results )
            => event'.result.status = cached_update_results[event'.cid].status
        /\ \A cid \in DOMAIN cached_update_results :
              ( \/ cid \notin DOMAIN cached_update_results'
                \/ cached_update_results'[cid] # cached_update_results[cid] )
              => \/ event'.op = "force_update_check"
                 \/ /\ event'.op = "check_image_updates"
                    /\ event'.cid = cid
                    /\ event'.path \in { "due", "no_image" } ]_vars

\* a verdict from a live check is returned from the cache on a later day
C11_Witness ==
    /\ Called /\ event.path = "cached"
    /\ event.result.status = 1
    /\ Day(now) > 0
    /\ ~should_check_updates

\* C12: for a container record whose Image is empty, check_image_updates
\* returns status 500 with registry_used False and sends no request to the
\* registry, whether or not a check is due or forced.
C12_NoImageIs500 ==
    [][ ( /\ event'.op \in { "check_image_updates", "check_image_updates_raised" }
          /\ todo # <<>> /\ Head(todo).Image = <<>> )
        => /\ event'.op = "check_image_updates"
           /\ event'.result = [ status |-> 500, registry_used |-> FALSE ]
           /\ ~event'.live
           /\ cached_registry_responses' = cached_registry_responses ]_vars

\* a forced cycle handled a container without an image name
C12_Witness ==
    /\ Called /\ event.path = "no_image"
    /\ force_update_requested /\ features
    /\ force_pc = "refreshing"

\* C14: a failure while checking one container (a registry HTTP error, a
\* network exception, a token failure or a failure while resolving the
\* image's architecture and OS) never leaves check_image_updates: the call
\* returns a result and the cycle goes on with the remaining containers.
C14_FailureIsolated ==
    [][ event'.op \in { "check_image_updates", "check_image_updates_raised" }
        => /\ event'.op = "check_image_updates"
           /\ lock'
           /\ todo' = Tail(todo) ]_vars

\* C17: a force_update_check() with the feature enabled results in a refresh
\* cycle in which every container with an image name is asked about at the
\* registry, also when another refresh holds the lock at that moment: the
\* requested refresh never ends without its cycle.
C17_ForceRunsLiveCycle ==
    [][ /\ force_pc = "requested" => force_pc' \in { "requested", "refreshing" }
        /\ ( /\ force_pc = "refreshing"
             /\ event'.op = "check_image_updates"
             /\ Head(todo).Image # <<>> )
            => event'.live ]_vars

C19_OneCycleInFlight ==
    [][ lock => /\ ~(force_pc = "requested" /\ force_pc' = "refreshing")
                /\ \/ todo' = todo
                   \/ todo # <<>> /\ todo' = Tail(todo)
                   \/ todo' = <<>> /\ ~lock' ]_vars

\* a forced refresh waits for the lock while a periodic cycle is at work
C19_Witness ==
    /\ lock
    /\ force_pc = "requested"
    /\ todo # <<>>

\* C20: a refresh whose lock acquisition times out changes neither
\* last_update_check, the force flag nor either cache, and does not replace
\* the snapshot published before.
C20_TimeoutChangesNothing ==
    [][ event'.op = "refresh_timeout"
        => /\ UNCHANGED << last_update_check, force_update_requested,
                           cached_update_results, cached_registry_responses >>
           /\ data = "snapshot" => data' = "snapshot" ]_vars

\* a due check_image_updates call has been made and is looked at
Answered == registry_call.op = "get_manifest"

\* C13: a failed registry call is mapped to the verdict status: HTTP 401
\* gives 401, HTTP 404 gives 404, a ValueError gives 404, HTTP 429 gives 429,
\* and every other HTTP status, an HTTP error without a response and every
\* other exception give 500.
C13_FailureTaxonomy ==
    (Answered /\ registry_call.outcome.kind # "ok")
        => LET o == registry_call.outcome
           IN  registry_call.result.status =
                 IF o.kind = "HTTPError" /\ o.code \in { 401, 404, 429 } THEN o.code
                 ELSE IF o.kind = "ValueError" THEN 404
                 ELSE 500

\* s with one leading 'sha256:' removed
Strip(s) ==
    IF Len(s) >= 7 /\ \A i \in 1..7 : s[i] = SHA256_PREFIX[i]
    THEN [ i \in 1..(Len(s) - 7) |-> s[i + 7] ]
    ELSE s

\* C15: after a successful registry fetch the verdict is status 1 exactly
\* when the manifest's Id and the container's ImageID, each with one leading
\* 'sha256:' stripped, are both non-empty and differ, and status 0 in every
\* other case, a manifest without an Id included.
C15_VerdictFromIds ==
    (Answered /\ registry_call.outcome.kind = "ok")
        => LET registry_id == Strip(_add_digest_to_manifest(registry_call.outcome.manifest))
               container_id == Strip(registry_call.container.ImageID)
           IN  registry_call.result.status =
                 IF registry_id # <<>> /\ container_id # <<>> /\ registry_id # container_id
                 THEN 1 ELSE 0

\* a digest with the prefix and an image id without it name the same image
C15_Witness ==
    /\ Answered /\ registry_call.outcome.kind = "ok"
    /\ registry_call.outcome.manifest.config_digest = SHA256_PREFIX \o <<"a">>
    /\ registry_call.container.ImageID = <<"a">>
    /\ registry_call.result.status = 0

\* the positions of the entries of the answered manifest list whose platform
\* is the one asked for
Matching ==
    LET l == registry_call.env.body.manifests
    IN  { i \in 1..Len(l) : l[i].architecture = registry_call.arch /\ l[i].os = registry_call.os }

\* the call asked for a platform and the registry answered a manifest list
ListAnswered ==
    /\ Answered
    /\ registry_call.arch # "" /\ registry_call.os # ""
    /\ registry_call.env.token = "ok" /\ registry_call.env.net = "ok"
    /\ registry_call.env.status = 200
    /\ registry_call.env.body.mediaType \in MANIFEST_LIST_TYPES

C21_LockFreeOnEveryExit ==
    (event.op \in { "check_image_updates_raised", "refresh_cancelled" }) => ~lock

\* C29: with the feature enabled get_next_update_check_time() returns a time
\* at the configured time of day that is strictly later than now and at most
\* one day after now: today's scheduled time if now is before it, tomorrow's
\* otherwise; it returns None exactly when the feature is disabled.
C29_NextCheckTime ==
    LET next == get_next_update_check_time
        today == Day(now) * SlotsPerDay + update_check_time
    IN  /\ (next = None) <=> ~features
        /\ features =>
              /\ TimeOfDay(next) = update_check_time
              /\ next > now
              /\ next <= now + SlotsPerDay
              /\ (now < today) => (Day(next) = Day(now))
              /\ (now >= today) => (Day(next) = Day(now) + 1)

\* now is exactly the scheduled time of an enabled check: the next check is
\* tomorrow's, a full day away
C29_Witness ==
    /\ features
    /\ TimeOfDay(now) = update_check_time
    /\ get_next_update_check_time = now + SlotsPerDay
    /\ last_update_check = now

\* the container record with the given id
ContainerOf(id) == CHOOSE c \in { C_A, C_B, C_E } : c.Id = id

\* C23: within one cycle whose checks are due, for two containers with the
\* same image_key at most one live manifest request is sent; the later
\* container's verdict is computed from the cached registry response.
C23_OneRequestPerImage ==
    [][ ( /\ Called /\ event.live /\ event.result.status \in { 0, 1 }
          /\ lock /\ todo # <<>>
          /\ event'.op = "check_image_updates"
          /\ parse_image_name(Head(todo).Image).image_key
                = parse_image_name(ContainerOf(event.cid).Image).image_key )
        => ~event'.live ]_vars

\* the step is a check_image_updates call that consults the registry cache
\* and stores no new response in it
ConsultedOnly ==
    /\ event'.op = "check_image_updates"
    /\ event'.path # "no_image"
    /\ ~(event'.live /\ event'.result.status \in { 0, 1 })

\* C22: after a polling cycle that performed a due check, the registry cache
\* is non-empty; when the cache is next consulted more than one day after
\* last_update_check with no intervening check it is empty, and it is left
\* unchanged when that age is at most one day.
C22_CacheExpiry ==
    [][ /\ (lock /\ ~lock' /\ data' = "snapshot" /\ cycle_live_days # {})
            => cached_registry_responses' # EmptyMap
        /\ (ConsultedOnly /\ last_update_check # None)
            => IF now - last_update_check > SlotsPerDay
               THEN cached_registry_responses' = EmptyMap
               ELSE cached_registry_responses' = cached_registry_responses ]_vars

\* C22 as amended: immediately after a due check of a container whose
\* registry request succeeded the registry cache is non-empty; a check that
\* stores no response empties the cache when last_update_check is more than
\* one day old and leaves it unchanged when that age is at most one day.
C22_CacheExpiryAfterSuccess ==
    [][ /\ (event'.op = "check_image_updates" /\ event'.live
               /\ event'.result.status \in { 0, 1 })
            => cached_registry_responses' # EmptyMap
        /\ (ConsultedOnly /\ last_update_check # None)
            => IF now - last_update_check > SlotsPerDay
               THEN cached_registry_responses' = EmptyMap
               ELSE cached_registry_responses' = cached_registry_responses ]_vars

\* a container is checked more than a day after the last check, after an
\* earlier container's response was stored, and its request fails: the
\* registry cache is empty
C22_Witness ==
    /\ Called /\ event.live /\ event.cid = "c2" /\ event.result.status = 503
    /\ "c1" \in DOMAIN cached_update_results
    /\ cached_update_results["c1"].status \in { 0, 1 }
    /\ last_update_check # None
    /\ now - last_update_check > SlotsPerDay
    /\ cached_registry_responses = EmptyMap

\* parse_image_name has been called
Parsed == parse_call.op = "parse_image_name"

\* registry, repository and tag of a parse result
Triple(r) == << r.registry, r.image_repo, r.image_tag >>

\* C24: for every string s, including the empty string,
\* parse_image_name(s + "@sha256:" + digest) returns the same registry,
\* repository and tag as parse_image_name(s).
C24_DigestStripped ==
    Parsed => Triple(parse_call.with_digest) = Triple(parse_call.result)

\* C25: for every input the repository returned by parse_image_name is
\* non-empty, falling back to "unknown": also for a registry host followed by
\* "/" and for a string that starts with ":" or "@".
C25_RepositoryNeverEmpty ==
    Parsed =>
        /\ parse_call.result.image_repo # <<>>
        /\ ( \/ parse_call.image_name = <<>>
             \/ Head(parse_call.image_name) \in { ":", "@" }
             \/ (parse_call.prefix # <<>> /\ parse_call.name = <<>>) )
           => parse_call.result.image_repo = UNKNOWN

\* C26: for every bare image name with no "/" and no explicit registry, with
\* or without a tag, and for such a name under any Docker Hub alias
\* (docker.io, registry-1.docker.io, each with or without :443), the
\* repository returned by parse_image_name starts with "library/".
C26_LibraryNamespace ==
    ( /\ Parsed
      /\ parse_call.name # <<>>
      /\ ~Contains(parse_call.name, "/")
      /\ parse_call.prefix # GHCR_IO \o <<"/">> )
        => StartsWith(parse_call.result.image_repo, LIBRARY)

\* a tagged name under registry-1.docker.io:443 is put into library/
C26_Witness ==
    /\ Parsed
    /\ parse_call.prefix = DOCKER_IO_REGISTRY \o PORT_443 \o <<"/">>
    /\ parse_call.name = <<"a", ":", "a">>
    /\ parse_call.result.image_repo = LIBRARY \o <<"a">>
    /\ parse_call.result.image_tag = <<"a">>

\* C27: for every reference r without a digest, parsing the image_key of
\* parse_image_name(r) returns the same registry, repository and tag as
\* parsing r.
C27_KeyRoundTrip ==
    ( /\ Parsed
      /\ parse_call.image_name # <<>>
      /\ ~Contains(parse_call.image_name, "@") )
        => Triple(parse_call.reparsed) = Triple(parse_call.result)

\* a tagged image on a registry with a port is parsed, and its image_key is
\* parsed to the same three parts
C27_Witness ==
    /\ Parsed
    /\ parse_call.prefix = DOCKER_IO \o PORT_443 \o <<"/">>
    /\ parse_call.name = <<"a", ":", "a">>
    /\ parse_call.result.image_key
          = DOCKER_IO \o PORT_443 \o <<"/">> \o LIBRARY \o <<"a", ":", "a">>
    /\ Triple(parse_call.reparsed)
          = << DOCKER_IO \o PORT_443, LIBRARY \o <<"a">>, <<"a">> >>

\* the image name handed to the parser, without its digest
WithoutDigest ==
    LET s == parse_call.image_name
    IN  IF Contains(s, "@") THEN Before(s, FirstIndex(s, "@")) ELSE s

\* C28: for every input, parse_image_name takes the part after the last ":"
\* as the tag only if that part contains no "/" (otherwise the tag is
\* "latest" and the string is not split); a first path segment containing
\* "." or ":" is returned as the registry, with its port, and removed from
\* the repository; otherwise the registry is docker.io.
C28_TagAndRegistry ==
    Parsed =>
        LET s == WithoutDigest
            k == LastIndex(s, ":")
            tagged == k > 0 /\ ~Contains(After(s, k), "/")
            rest == IF tagged THEN Before(s, k) ELSE s
            j == FirstIndex(rest, "/")
            segment == Before(rest, j)
            hosted == j > 0 /\ (Contains(segment, ".") \/ Contains(segment, ":"))
            r == parse_call.result
        IN  /\ r.image_tag = IF tagged THEN After(s, k) ELSE LATEST
            /\ r.registry = IF hosted THEN segment ELSE DOCKER_IO
            /\ hosted => r.image_repo \in { After(rest, j), LIBRARY \o After(rest, j) }
            /\ (~hosted /\ s # <<>>) => r.image_repo \in { rest, LIBRARY \o rest }

\* a name under ghcr.io in which a "/" follows the last ":": the string is
\* not split, the tag is "latest" and the host is taken off the repository
C28_Witness ==
    /\ Parsed
    /\ parse_call.prefix = GHCR_IO \o <<"/">>
    /\ parse_call.name = <<":", "/", "a">>
    /\ parse_call.result.image_tag = LATEST
    /\ parse_call.result.registry = GHCR_IO
    /\ parse_call.result.image_repo = <<":", "/", "a">>

\* the option is the boolean True, or the config entry has no such option
EnabledOrAbsent ==
    \/ "feature_switch_update_check" \notin DOMAIN config_entry
    \/ config_entry.feature_switch_update_check = TRUE

\* C30: the force-update button and the update-check sensor are each
\* available exactly when the coordinator is connected and the option
\* feature_switch_update_check is the boolean True or is absent; the option
\* is read again on every query.
C30_Availability ==
    /\ (entities.op = "button.available")
          => (entities.button = Answer(entities.connected /\ EnabledOrAbsent))
    /\ (entities.op = "sensor.available")
          => (entities.sensor = Answer(entities.connected /\ EnabledOrAbsent))

\* C31: after a polling cycle with the update-check feature enabled every
\* container carries in its custom attributes an integer Update_Status taken
\* from the closed status set and a string Update_Description.
C31_UpdateAttributes ==
    Called =>
        /\ "Update_Status" \in DOMAIN event.attrs
        /\ "Update_Description" \in DOMAIN event.attrs
        /\ event.attrs["Update_Status"] \in StatusCodes

\* C33: a force_update_check() invoked while a refresh cycle is in flight does
\* not affect that cycle: while the cycle handles its containers the force
\* flag keeps its value and the caches change only by the cycle's own checks.
C33_ForceLeavesRunningCycleAlone ==
    [][ (lock /\ ~cancelled /\ todo # <<>> /\ event'.op = "force_update_check")
        => /\ force_update_requested' = force_update_requested
           /\ cached_update_results' = cached_update_results
           /\ cached_registry_responses' = cached_registry_responses ]_vars

\* C35: within one refresh cycle the due/not-due decision is the same for
\* every container with an image, also when the configured check time is
\* reached in the middle of the cycle: the second container is checked live
\* exactly if the first one was.
C35_OneDecisionPerCycle ==
    [][ ( /\ lock /\ ~cancelled /\ todo # <<>> /\ Head(todo) = C_B
          /\ features /\ ~tainted /\ ~tainted'
          /\ event'.op = "check_image_updates" )
        => (event'.live <=> cycle_live_days # {}) ]_vars

\* C36, the part of it a finite run can refute: with the feature enabled, no
\* force-check and no option update, a cycle that starts at or after the
\* configured time of its day, handles both containers and completes leaves
\* the first container with a verdict from a live registry check.
C36_CheckedAfterScheduledTime ==
    [][ ( /\ lock /\ ~lock' /\ data' = "snapshot"
          /\ Called /\ event.cid = "c2"
          /\ features /\ ~tainted'
          /\ Day(cycle_start) = Day(now)
          /\ TimeOfDay(cycle_start) >= update_check_time )
        => "c1" \in DOMAIN cached_update_results' ]_vars

\* C37: for every combination of feature flag, force flag, configured time,
\* current time and last_update_check, PortainerUpdateService's
\* should_check_updates returns the same value as PortainerCoordinator's.
C37_ServiceAgreesWithCoordinator ==
    update_service_should_check_updates = should_check_updates

\* the registries for which _prepend_library_if_needed applies the rule
DockerHubAliases ==
    { DOCKER_IO, DOCKER_IO_REGISTRY, DOCKER_IO \o PORT_443, DOCKER_IO_REGISTRY \o PORT_443 }

\* C34: every registry for which parse_image_name applies the Docker Hub
\* "library/" rule (docker.io, registry-1.docker.io, each with or without
\* :443) is dispatched by for_registry to the Docker Hub provider; ghcr.io is
\* dispatched to the GHCR provider and every other host to the generic one.
C34_ProviderDispatch ==
    Parsed =>
        parse_call.provider =
            IF parse_call.result.registry \in DockerHubAliases THEN "DockerIORegistry"
            ELSE IF parse_call.result.registry = GHCR_IO THEN "GHCRRegistry"
            ELSE "GenericRegistry"

\* C39: after an option update coordinator.features[feature_switch_update_check]
\* equals the update-check option of coordinator.config_entry, so the force
\* button is available (when connected) exactly when force_update_check()
\* would perform a check.
C39_FeaturesFollowOptions ==
    (entities.op = "button.async_update_entry")
        => /\ features = options_get(config_entry)
           /\ entities.connected => (available <=> features)

\* C32: _get_valid_token returns the cached token without a token request
\* while the time is at most the recorded expiry, asks for a fresh token once
\* the expiry has passed, and so never hands out a token past its recorded
\* expiry.
C32_TokenWithinExpiry ==
    (provider.op = "_get_valid_token")
        => /\ provider.valid_before
                => (~provider.requested /\ provider.returned = provider._token)
           /\ ~provider.valid_before => provider.requested
           /\ (provider.returned # None)
                => (provider.time <= provider._token_expiry)

\* C38: the refresh lock is released only by the cycle that acquired it: with
\* async_shutdown running while a cycle is in flight, the lock stays held as
\* long as a cycle is in its critical section, no second cycle enters it, and
\* no release of an unlocked lock happens.
C38_LockReleasedByOwner ==
    refresh.shutdown
        => /\ (\E t \in Tasks : InCriticalSection(t)) => lock
           /\ Cardinality({ t \in Tasks : InCriticalSection(t) }) <= 1
           /\ refresh.error = "none"

\* C40: for every stored update_check_time string the property yields an
\* hour in 0..23 and a minute in 0..59, it yields 02:00 for every string that
\* is not a valid HH:MM time, and should_check_updates and
\* get_next_update_check_time do not raise.
C40_TimeAlwaysUsable ==
    (time_call.op = "update_check_time")
        => /\ time_call.hm[1] \in 0..23
           /\ time_call.hm[2] \in 0..59
           /\ ~validate_time_string(time_call.time_str) => time_call.hm = << 2, 0 >>
           /\ ~time_call.should_check_updates_raises
           /\ ~time_call.get_next_update_check_time_raises

=============================================================================
